---- MODULE Spec2Model ----
(***************************************************************************)
(* Model of the core of piptime (src/main.rs): the champion selection      *)
(* (select_champion and its callers find_pip / find_npm), the anchor       *)
(* window (pip_anchor_window) and the overlap scan                         *)
(* (versions_overlapping_window).                                          *)
(*                                                                         *)
(* Instants (DateTime<Utc>) are naturals.  Vec indices are 0-based as in   *)
(* the source; Index and Get translate them to TLA+ sequences.             *)
(* Option<T> is a sequence of length at most one: None = <<>>,             *)
(* Some(x) = <<x>>.                                                        *)
(***************************************************************************)
EXTENDS Integers, Sequences, FiniteSets, TLC

\* ---- bounds --------------------------------------------------------------
MaxLen == 3
MaxDate == 3

\* version strings: the keys of the registry's map, and the anchor versions
\* a user may ask for
VersionNames == <<"1.0", "1.0.0", "2.0", "2.0a", "2.0A">>
Versions == {VersionNames[i] : i \in DOMAIN VersionNames}
\* package names given on the command line
Packages == {"requests", "flask"}
\* release instants, and instants for cutoffs, window bounds and the clock
Dates == 0..MaxDate
Instants == 0..(MaxDate + 1)

\* ---- Option and Vec helpers ------------------------------------------------
None == <<>>
Some(x) == <<x>>
IsSome(o) == o # <<>>
UnwrapOr(o, d) == IF o = <<>> THEN d ELSE o[1]

\* releases[i] with a 0-based index (panics out of range; callers guard)
Index(s, i) == s[i + 1]
\* slice::get: None when out of range
Get(s, i) == IF i >= 0 /\ i < Len(s) THEN Some(s[i + 1]) ELSE None

\* struct PackageVersion { version, date }
PackageVersion == [version : Versions, date : Dates]
\* struct WindowedVersion { version, overlap_start, overlap_end }
WindowedVersion(v, s, e) == [version |-> v, overlap_start |-> s, overlap_end |-> e]

Max_NoClamp(a, b) == a
Max(a, b) == IF a >= b THEN a ELSE b
Min_NoClamp(a, b) == a
Min(a, b) == IF a <= b THEN a ELSE b

\* ---- sort_by_key(|v| v.date): a stable ascending sort ----------------------
RECURSIVE InsertByDate_Unstable(_, _)
InsertByDate_Unstable(sorted, x) ==
    IF sorted = <<>> THEN <<x>>
    ELSE IF sorted[Len(sorted)].date < x.date THEN Append(sorted, x)
    ELSE Append(InsertByDate_Unstable(SubSeq(sorted, 1, Len(sorted) - 1), x),
                sorted[Len(sorted)])

\* insert x after every element whose key is <= x's key (keeps equal keys in
\* their original order)
RECURSIVE InsertByDate(_, _)
InsertByDate(sorted, x) ==
    IF sorted = <<>> THEN <<x>>
    ELSE IF sorted[Len(sorted)].date <= x.date THEN Append(sorted, x)
    ELSE Append(InsertByDate(SubSeq(sorted, 1, Len(sorted) - 1), x),
                sorted[Len(sorted)])

RECURSIVE SortByKey(_)
SortByKey(s) ==
    IF s = <<>> THEN <<>>
    ELSE InsertByDate(SortByKey(SubSeq(s, 1, Len(s) - 1)), s[Len(s)])

\* Vec::pop: the last element, None when empty
Pop_First(s) == IF s = <<>> THEN None ELSE Some(s[1])
Pop(s) == IF s = <<>> THEN None ELSE Some(s[Len(s)])

\* .filter(|v| v.date <= target_date).collect()
FilterCutoff_Strict(s, target) == SelectSeq(s, LAMBDA v : v.date < target)
FilterCutoff(s, target) == SelectSeq(s, LAMBDA v : v.date <= target)

\* fn select_champion(mut candidates) -> Option<PackageVersion>
select_champion(cands) == Pop(SortByKey(cands))

\* ---- iter().position / iter().rposition -----------------------------------
\* first 0-based index at or after i whose version equals ver
RECURSIVE PositionFrom(_, _, _)
PositionFrom(s, ver, i) ==
    IF i >= Len(s) THEN None
    ELSE IF Index(s, i).version = ver THEN Some(i)
    ELSE PositionFrom(s, ver, i + 1)

Position_SkipLast(s, ver) ==
    PositionFrom(SubSeq(s, 1, Len(s) - 1), ver, 0)
Position(s, ver) == PositionFrom(s, ver, 0)

\* last 0-based index below n whose date is <= ws
RECURSIVE RpositionFrom(_, _, _)
RpositionFrom(s, ws, n) ==
    IF n = 0 THEN None
    ELSE IF Index(s, n - 1).date <= ws THEN Some(n - 1)
    ELSE RpositionFrom(s, ws, n - 1)

Rposition(s, ws) == RpositionFrom(s, ws, Len(s))

\* ---- state -----------------------------------------------------------------
VARIABLES
    registry,      \* the registry's releases in the map's iteration order
    releases,      \* the Vec returned by fetch_pip_releases
    pc,            \* where the run is
    target_date,   \* find_*: the cutoff
    candidates,    \* find_*: the Vec handed to select_champion
    champion,      \* find_*: Option<PackageVersion> returned
    pkg,           \* pip_anchor_window: package name
    version,       \* pip_anchor_window: anchor version
    now,           \* pip_anchor_window: what Utc::now() reads
    window,        \* pip_anchor_window: Option of its Result
    window_start,  \* versions_overlapping_window: argument
    window_end,    \* versions_overlapping_window: argument
    idx,           \* versions_overlapping_window: loop index
    out            \* versions_overlapping_window: segments pushed so far

vars == <<registry, releases, pc, target_date, candidates, champion, pkg,
          version, now, window, window_start, window_end, idx, out>>

\* the registry data is a map keyed by version, so versions are pairwise
\* different; they are only ever compared for equality, so the keys are named
\* in the map's iteration order.  The dates are arbitrary: the iteration
\* order is unrelated to the date order and dates may tie.
RegistriesOfLen(n) ==
    {[i \in 1..n |-> [version |-> VersionNames[i], date |-> f[i]]] :
        f \in [1..n -> Dates]}

Registries == UNION {RegistriesOfLen(n) : n \in 0..MaxLen}

Init ==
    /\ registry \in Registries
    /\ releases = <<>>
    /\ pc = "start"
    /\ target_date = 0
    /\ candidates = <<>>
    /\ champion = None
    /\ pkg = "requests"
    /\ version = "1.0"
    /\ now = 0
    /\ window = None
    /\ window_start = 0
    /\ window_end = 0
    /\ idx = 0
    /\ out = <<>>

\* ---- fetch_pip_releases: collect the map's entries, sort_by_key(date) ------
FetchPipReleases ==
    /\ pc = "start"
    /\ releases' = SortByKey(registry)
    /\ pc' = "fetched"
    /\ UNCHANGED <<registry, target_date, candidates, champion, pkg, version,
                   now, window, window_start, window_end, idx, out>>

\* ---- find_pip: filter the fetched releases, select_champion ----------------
FindPip ==
    /\ pc = "fetched"
    /\ \E target \in Instants :
        /\ target_date' = target
        /\ candidates' = FilterCutoff(releases, target)
        /\ champion' = select_champion(candidates')
    /\ pc' = "find_done"
    /\ UNCHANGED <<registry, releases, pkg, version, now, window,
                   window_start, window_end, idx, out>>

\* ---- find_npm (find_cargo, find_gem, find_composer alike): push the --------
\* ---- entries with date <= target_date in iteration order, select_champion --
FindNpm ==
    /\ pc = "start"
    /\ \E target \in Instants :
        /\ target_date' = target
        /\ candidates' = FilterCutoff(registry, target)
        /\ champion' = select_champion(candidates')
    /\ pc' = "find_done"
    /\ UNCHANGED <<registry, releases, pkg, version, now, window,
                   window_start, window_end, idx, out>>

\* ---- pip_anchor_window ------------------------------------------------------
\* Option::map(|v| v.date)
MapDate(o) == IF o = <<>> THEN None ELSE Some(o[1].date)

\* Result<(DateTime, DateTime)>: Ok((start, end)) or the error built by
\* with_context(|| format!("Version '{}' not found for '{}'", version, pkg))
Ok(s, e) == [ok |-> TRUE, start |-> s, end |-> e]
Err(ver, p) == [ok |-> FALSE, version |-> ver, pkg |-> p]

\* releases.get(idx + 1).map(|v| v.date).unwrap_or_else(Utc::now)
AnchorEnd_SkipOne(rel, i, clock) == UnwrapOr(MapDate(Get(rel, i + 2)), clock)
AnchorEnd(rel, i, clock) == UnwrapOr(MapDate(Get(rel, i + 1)), clock)

pip_anchor_window(p, ver, rel, clock) ==
    LET pos == Position(rel, ver) IN
    IF pos = None THEN Err(ver, p)
    ELSE Ok(Index(rel, pos[1]).date, AnchorEnd(rel, pos[1], clock))

\* run_overlap: fetch_pip_releases for the anchor package, then
\* pip_anchor_window; Utc::now() is read inside the call
PipAnchorWindow ==
    /\ pc = "fetched"
    /\ \E p \in Packages, ver \in Versions, clock \in Instants :
        /\ pkg' = p
        /\ version' = ver
        /\ now' = clock
        /\ window' = Some(pip_anchor_window(p, ver, releases, clock))
    /\ pc' = "anchor_done"
    /\ UNCHANGED <<registry, releases, target_date, candidates, champion,
                   window_start, window_end, idx, out>>

\* ---- versions_overlapping_window -------------------------------------------
\* if releases.is_empty() || window_start >= window_end { return Vec::new(); }
IsDegenerate_NoEmptyCheck(rel, ws, we) == ws >= we
IsDegenerate(rel, ws, we) == rel = <<>> \/ ws >= we

\* releases.get(idx + 1).map(|v| v.date).unwrap_or(window_end)
NextDate_WindowEnd(rel, i, we) == we
NextDate(rel, i, we) == UnwrapOr(MapDate(Get(rel, i + 1)), we)

\* entry: the early return, then rposition(|v| v.date <= window_start)
\* .unwrap_or(0)
VowEntry ==
    /\ pc = "fetched"
    /\ \E ws \in Instants, we \in Instants :
        /\ window_start' = ws
        /\ window_end' = we
        /\ out' = <<>>
        /\ IF IsDegenerate(releases, ws, we)
           THEN /\ pc' = "vow_done"
                /\ idx' = idx
           ELSE /\ pc' = "vow_loop"
                /\ idx' = UnwrapOr(Rposition(releases, ws), 0)
    /\ UNCHANGED <<registry, releases, target_date, candidates, champion, pkg,
                   version, now, window>>

\* one iteration of the loop; releases[idx] out of range is a panic
VowIter ==
    /\ pc = "vow_loop"
    /\ IF idx >= Len(releases)
       THEN /\ pc' = "panic"
            /\ UNCHANGED <<idx, out>>
       ELSE LET ver == Index(releases, idx)
                next_date == NextDate(releases, idx, window_end)
                overlap_start == Max(ver.date, window_start)
                overlap_end == Min(next_date, window_end)
            IN  /\ out' = IF overlap_start < overlap_end
                          THEN Append(out, WindowedVersion(ver.version,
                                                           overlap_start,
                                                           overlap_end))
                          ELSE out
                /\ idx' = idx + 1
                /\ pc' = IF idx + 1 >= Len(releases) THEN "vow_done"
                         ELSE IF Index(releases, idx + 1).date >= window_end
                              THEN "vow_done"
                              ELSE "vow_loop"
    /\ UNCHANGED <<registry, releases, target_date, candidates, champion, pkg,
                   version, now, window, window_start, window_end>>

Next ==
    \/ FetchPipReleases
    \/ FindPip
    \/ FindNpm
    \/ PipAnchorWindow
    \/ VowEntry
    \/ VowIter

Spec == Init /\ [][Next]_vars

\* the program is single-threaded and runs every call to completion
FairSpec == Spec /\ WF_vars(Next)

TypeOK ==
    /\ pc \in {"start", "fetched", "find_done", "anchor_done", "vow_loop",
               "vow_done", "panic"}
    /\ registry \in Seq(PackageVersion)
    /\ releases \in Seq(PackageVersion)
    /\ idx \in 0..MaxLen
    /\ Len(out) <= MaxLen

\* ---- vocabulary of the properties ------------------------------------------
\* the releases of the package, whatever their order
Timeline == {registry[i] : i \in DOMAIN registry}

\* releases published at or before the cutoff
AtOrBefore(c) == {r \in Timeline : r.date <= c}

SortedAscending(s) ==
    \A i, j \in DOMAIN s : i < j => s[i].date <= s[j].date

\* 1-based positions of releases published at or before instant t
PositionsAtOrBefore(t) == {i \in DOMAIN releases : releases[i].date <= t}

SetMax(S) == CHOOSE m \in S : \A x \in S : x <= m
SetMin(S) == CHOOSE m \in S : \A x \in S : m <= x

FindDone == pc = "find_done"
AnchorDone == pc = "anchor_done"
VowDone == pc = "vow_done"

\* ---- C1 -------------------------------------------------------------------
\* C1: when the champion selection (filter date <= cutoff, then
\* select_champion) returns a release, it is a release of the timeline
\* published at or before the cutoff, and no release of the timeline
\* published at or before the cutoff has a strictly greater date.
C1_ChampionIsLatestAtCutoff ==
    (FindDone /\ champion # None) =>
        LET r == champion[1] IN
        /\ r \in Timeline
        /\ r.date <= target_date
        /\ \A q \in AtOrBefore(target_date) : ~(q.date > r.date)

\* a champion chosen while an older candidate exists and a newer release is
\* cut off
C1_Witness ==
    /\ FindDone
    /\ champion # None
    /\ \E q \in Timeline : q.date > target_date
    /\ \E q \in Timeline : q.date < champion[1].date

\* ---- C2 -------------------------------------------------------------------
\* C2: for a timeline sorted ascending by date and any window, the emitted
\* segments each have overlap_start < overlap_end, are in ascending
\* overlap_start order, do not overlap pairwise, and are contiguous (each
\* segment starts where the previous one ends); they lie inside the window
\* and the last one ends at window_end, so only a lead-in before the first
\* segment can be uncovered.
C2_SegmentsContiguous ==
    (VowDone /\ SortedAscending(releases)) =>
        /\ \A k \in DOMAIN out : out[k].overlap_start < out[k].overlap_end
        /\ \A k, l \in DOMAIN out :
              k < l => /\ out[k].overlap_start < out[l].overlap_start
                       /\ out[k].overlap_end <= out[l].overlap_start
        /\ \A k \in DOMAIN out :
              k > 1 => out[k].overlap_start = out[k - 1].overlap_end
        /\ out # <<>> => /\ out[1].overlap_start >= window_start
                         /\ out[Len(out)].overlap_end = window_end

\* three segments, a lead-in before the first
C2_Witness ==
    /\ VowDone
    /\ Len(out) = 3
    /\ out[1].overlap_start > window_start

\* ---- C3 -------------------------------------------------------------------
\* C3: pip_anchor_window returns a window exactly when some entry of the
\* timeline has a version equal to the anchor version; otherwise it returns
\* the not-found error, which names the package and the version and carries
\* no window.
C3_WindowIffVersionPresent ==
    AnchorDone =>
        LET w == window[1] IN
        /\ w.ok <=> (\E i \in DOMAIN releases : releases[i].version = version)
        /\ w.ok => DOMAIN w = {"ok", "start", "end"}
        /\ ~w.ok => /\ DOMAIN w = {"ok", "version", "pkg"}
                    /\ w.version = version
                    /\ w.pkg = pkg

\* the anchor is missing from a timeline of three other versions
C3_Witness ==
    /\ AnchorDone
    /\ ~window[1].ok
    /\ Len(releases) = 3

\* ---- C4 -------------------------------------------------------------------
\* C4: when pip_anchor_window succeeds for the entry at position i, start is
\* that entry's date and end is the date of the entry at position i+1, or
\* the clock instant when i is the last position.
C4_WindowBounds ==
    (AnchorDone /\ window[1].ok) =>
        \A i \in DOMAIN releases :
            releases[i].version = version =>
                /\ window[1].start = releases[i].date
                /\ window[1].end = IF i = Len(releases) THEN now
                                   ELSE releases[i + 1].date

\* the anchor is followed by a release whose date differs from the clock
C4_Witness ==
    /\ AnchorDone
    /\ window[1].ok
    /\ \E i \in DOMAIN releases :
          /\ releases[i].version = version
          /\ i < Len(releases)
          /\ releases[i + 1].date # now
          /\ releases[i + 1].date > releases[i].date

\* ---- C5 -------------------------------------------------------------------
\* C5: for an anchor whose date is the maximum date of the timeline
\* (several releases may share it), pip_anchor_window returns an end equal
\* to the clock instant.
C5_LastByTimeEndsNow ==
    (AnchorDone /\ window[1].ok) =>
        \A i \in DOMAIN releases :
            (/\ releases[i].version = version
             /\ \A j \in DOMAIN releases : releases[j].date <= releases[i].date)
            => window[1].end = now

\* ---- C6 -------------------------------------------------------------------
\* C6: for a sorted timeline and window_start < window_end, if some release
\* has date <= window_start then the result is non-empty, its first segment
\* starts at window_start and belongs to the rightmost release with
\* date <= window_start, its last segment ends at window_end, and every
\* boundary between segments is the date of a release strictly inside the
\* window.
C6_WindowCoveredFromStart ==
    (/\ VowDone
     /\ SortedAscending(releases)
     /\ window_start < window_end
     /\ PositionsAtOrBefore(window_start) # {}) =>
        /\ out # <<>>
        /\ out[1].overlap_start = window_start
        /\ out[1].version =
              releases[SetMax(PositionsAtOrBefore(window_start))].version
        /\ out[Len(out)].overlap_end = window_end
        /\ \A k \in 1..(Len(out) - 1) :
              /\ out[k].overlap_end = out[k + 1].overlap_start
              /\ window_start < out[k].overlap_end
              /\ out[k].overlap_end < window_end
              /\ \E i \in DOMAIN releases :
                    releases[i].date = out[k].overlap_end

\* two releases at or before window_start, then two segments
C6_Witness ==
    /\ VowDone
    /\ window_start < window_end
    /\ Cardinality(PositionsAtOrBefore(window_start)) = 2
    /\ Len(out) = 2

\* ---- C7 -------------------------------------------------------------------
\* C7: for a sorted non-empty timeline and window_start < window_end with
\* every release published strictly after window_start: no segment starts
\* before the earliest date; if the earliest date is before window_end the
\* first segment starts at it and the last segment ends at window_end; if
\* every release is published at or after window_end the result is empty.
C7_WindowStartsBeforeFirstRelease ==
    (/\ VowDone
     /\ SortedAscending(releases)
     /\ releases # <<>>
     /\ window_start < window_end
     /\ \A i \in DOMAIN releases : releases[i].date > window_start) =>
        LET earliest == SetMin({releases[i].date : i \in DOMAIN releases}) IN
        /\ \A k \in DOMAIN out : out[k].overlap_start >= earliest
        /\ earliest < window_end =>
              /\ out # <<>>
              /\ out[1].overlap_start = earliest
              /\ out[Len(out)].overlap_end = window_end
        /\ (\A i \in DOMAIN releases : releases[i].date >= window_end) =>
              out = <<>>

\* a lead-in, then segments of two releases, a third one at or past window_end
C7_Witness ==
    /\ VowDone
    /\ window_start < window_end
    /\ Len(releases) = 3
    /\ \A i \in DOMAIN releases : releases[i].date > window_start
    /\ releases[3].date >= window_end
    /\ Len(out) = 2

\* ---- C8 -------------------------------------------------------------------
\* C8: the champion selection returns absent exactly when no release of the
\* timeline is published at or before the cutoff; otherwise it returns one
\* release of the timeline; it has no error outcome.
C8_AbsentIffNoneAtOrBeforeCutoff ==
    FindDone =>
        /\ champion = None <=> AtOrBefore(target_date) = {}
        /\ champion # None => /\ Len(champion) = 1
                              /\ champion[1] \in Timeline

\* the cutoff predates every release of a non-empty timeline
C8_Witness ==
    /\ FindDone
    /\ champion = None
    /\ Len(registry) = 3

\* ---- C9 -------------------------------------------------------------------
\* no out-of-range access has happened or is about to, and a degenerate
\* input has produced the empty result
C9_Safe ==
    /\ pc # "panic"
    /\ pc = "vow_loop" => idx < Len(releases)
    /\ (VowDone /\ (releases = <<>> \/ window_start >= window_end)) =>
          out = <<>>

\* C9: versions_overlapping_window returns the empty sequence when the
\* timeline is empty or window_start >= window_end, never indexes out of
\* range, and terminates with a result whatever the timeline and window.
C9_EmptyOnDegenerateAndTerminates ==
    /\ []C9_Safe
    /\ (pc = "vow_loop") ~> VowDone

\* an empty timeline and a proper window
C9_Witness ==
    /\ VowDone
    /\ releases = <<>>
    /\ window_start < window_end

\* ---- C10 ------------------------------------------------------------------
\* C10: when several candidates share the maximum date, select_champion
\* returns the one that comes last in the candidate list's original order;
\* in general it returns the last-positioned candidate among those with the
\* maximum date.
C10_TieBrokenByInsertionOrder ==
    (FindDone /\ candidates # <<>>) =>
        LET m == SetMax({candidates[i].date : i \in DOMAIN candidates})
            last == SetMax({i \in DOMAIN candidates : candidates[i].date = m})
        IN champion = Some(candidates[last])

\* two candidates tie on the maximum date and an older one comes after them
C10_Witness ==
    /\ FindDone
    /\ Len(candidates) = 3
    /\ candidates[1].date = candidates[2].date
    /\ candidates[3].date < candidates[2].date
    /\ champion = Some(candidates[2])

\* ---- C11 ------------------------------------------------------------------
\* the champion selection on the sorted timeline at cutoff t (find_pip's
\* filter, then select_champion)
ChampionAt(t) == select_champion(FilterCutoff(releases, t))

\* instants of the window [window_start, window_end)
WindowInstants == {t \in Instants : window_start <= t /\ t < window_end}

\* instants of segment seg
SegmentInstants(seg) ==
    {t \in Instants : seg.overlap_start <= t /\ t < seg.overlap_end}

\* C11: for a sorted timeline (ties included) and any window, at every instant
\* t of an emitted segment the champion selection at cutoff t returns the
\* release with the segment's version, and at every instant of the window
\* that no emitted segment covers the champion selection returns absent.
C11_SegmentsAgreeWithChampion ==
    (VowDone /\ SortedAscending(releases)) =>
        /\ \A k \in DOMAIN out : \A t \in SegmentInstants(out[k]) :
              /\ ChampionAt(t) # None
              /\ ChampionAt(t)[1].version = out[k].version
        /\ \A t \in WindowInstants :
              (\A k \in DOMAIN out : t \notin SegmentInstants(out[k])) =>
                  ChampionAt(t) = None

\* a lead-in, then a release, then two releases tied inside the window of
\* which the later-positioned one gets the segment
C11_Witness ==
    /\ VowDone
    /\ Len(releases) = 3
    /\ Len(out) = 2
    /\ out[1].overlap_start > window_start
    /\ releases[2].date = releases[3].date
    /\ releases[3].date < window_end
    /\ out[2].version = releases[3].version
    /\ Cardinality(SegmentInstants(out[2])) >= 2

====
